---- MODULE Spec2Model ----
(***************************************************************************)
(* UFEDkml2map: streaming extraction of Placemark records from a KML file, *)
(* the CSV written from them, and the export of one chart or of all three  *)
(* charts through a thread pool.                                           *)
(*                                                                         *)
(* Text is a sequence of one-character strings.  A float is an exact       *)
(* decimal [num, scale] (num * 10^-scale) with trailing fraction zeros     *)
(* removed, so "1" and "1.0" convert to the same value.                    *)
(* Storage (to_csv, write_html) is taken to succeed; render calls          *)
(* (create_map, plotly) return a figure or raise.                          *)
(***************************************************************************)
EXTENDS Integers, Sequences, FiniteSets, TLC

\* Largest number of Placemark end events one run of the parser is fed.
MaxPlacemarks == 2

(***************************************************************************)
(* Text helpers: str.strip, str.split(','), float().                       *)
(***************************************************************************)
Digits == {"0", "1", "2", "3", "4", "5", "6", "7", "8", "9"}

DigitVal(c) ==
    CASE c = "0" -> 0 [] c = "1" -> 1 [] c = "2" -> 2 [] c = "3" -> 3
      [] c = "4" -> 4 [] c = "5" -> 5 [] c = "6" -> 6 [] c = "7" -> 7
      [] c = "8" -> 8 [] c = "9" -> 9

RECURSIVE LStrip(_)
LStrip(s) == IF s # <<>> /\ s[1] = " " THEN LStrip(Tail(s)) ELSE s

RECURSIVE RStrip(_)
RStrip(s) ==
    IF s # <<>> /\ s[Len(s)] = " " THEN RStrip(SubSeq(s, 1, Len(s) - 1)) ELSE s

\* str.strip(): leading and trailing whitespace removed.
Strip(s) == RStrip(LStrip(s))

RECURSIVE SplitFrom(_, _, _)
SplitFrom(s, i, cur) ==
    IF i > Len(s) THEN <<cur>>
    ELSE IF s[i] = "," THEN <<cur>> \o SplitFrom(s, i + 1, <<>>)
    ELSE SplitFrom(s, i + 1, Append(cur, s[i]))

\* str.split(','): always at least one part; empty parts are kept.
SplitComma(s) == SplitFrom(s, 1, <<>>)

\* The unsigned body of a float literal: the token stripped, one sign dropped.
Unsigned(tok) ==
    LET t == Strip(tok)
    IN  IF t # <<>> /\ t[1] \in {"-", "+"} THEN Tail(t) ELSE t

CountOf(s, c) == Cardinality({i \in 1..Len(s) : s[i] = c})

\* Whether float(tok) returns (decimal literals; float() strips whitespace).
IsFloat(tok) ==
    LET u == Unsigned(tok)
    IN  /\ \A i \in 1..Len(u) : u[i] \in Digits \cup {"."}
        /\ CountOf(u, ".") <= 1
        /\ \E i \in 1..Len(u) : u[i] \in Digits

RECURSIVE DigitsNum(_)
DigitsNum(ds) ==
    IF ds = <<>> THEN 0
    ELSE 10 * DigitsNum(SubSeq(ds, 1, Len(ds) - 1)) + DigitVal(ds[Len(ds)])

RECURSIVE Normalise(_)
Normalise(v) ==
    IF v.scale > 0 /\ v.num % 10 = 0
    THEN Normalise([num |-> v.num \div 10, scale |-> v.scale - 1])
    ELSE v

\* float(tok) for a token IsFloat accepts.
FloatVal(tok) ==
    LET t      == Strip(tok)
        neg    == t # <<>> /\ t[1] = "-"
        u      == Unsigned(tok)
        dot    == IF CountOf(u, ".") = 0 THEN Len(u) + 1
                  ELSE CHOOSE i \in 1..Len(u) : u[i] = "."
        ds     == SubSeq(u, 1, dot - 1) \o SubSeq(u, dot + 1, Len(u))
        m      == DigitsNum(ds)
    IN  Normalise([num |-> IF neg THEN 0 - m ELSE m, scale |-> Len(u) + 1 - dot
                                                             - (IF dot <= Len(u) THEN 1 ELSE 0)])

(***************************************************************************)
(* Exceptions.  placemarks is the set of placemark ordinals the message    *)
(* names: none of the messages the code builds carries one.                *)
(***************************************************************************)
NoToken == <<>>

NoError ==
    [exc |-> "none", wrapped |-> FALSE, text |-> "", arg |-> NoToken,
     placemarks |-> {}]

\* AttributeError of None.text / None.strip() (find returned None, or no text).
AttributeError(attr) ==
    [exc |-> "AttributeError", wrapped |-> FALSE,
     text |-> "'NoneType' object has no attribute", arg |-> attr,
     placemarks |-> {}]

\* ValueError of "lon, lat = coord_parts" when the count is not 2.
UnpackError(n) ==
    [exc |-> "ValueError", wrapped |-> FALSE,
     text |-> IF n < 2 THEN "not enough values to unpack (expected 2)"
              ELSE "too many values to unpack (expected 2)",
     arg |-> NoToken, placemarks |-> {}]

\* FloatError with a message that does not quote the token.
FloatErrorBare(tok) ==
    [exc |-> "ValueError", wrapped |-> FALSE,
     text |-> "could not convert string to float", arg |-> NoToken,
     placemarks |-> {}]

\* ValueError of float(tok): the message quotes the token.
FloatError(tok) ==
    [exc |-> "ValueError", wrapped |-> FALSE,
     text |-> "could not convert string to float", arg |-> tok,
     placemarks |-> {}]

XMLSyntaxError ==
    [exc |-> "XMLSyntaxError", wrapped |-> FALSE, text |-> "syntax error",
     arg |-> NoToken, placemarks |-> {}]

\* raise ValueError(f"Error parsing KML file: {e}")
WrapParseError(e) ==
    [exc |-> "ValueError", wrapped |-> TRUE, text |-> e.text, arg |-> e.arg,
     placemarks |-> e.placemarks]

FileNotFound ==
    [exc |-> "FileNotFoundError", wrapped |-> FALSE,
     text |-> "Error: The file could not be found.", arg |-> NoToken,
     placemarks |-> {}]

\* str(e): what logging.error(e) and print(e) show.
Message(e) == [wrapped |-> e.wrapped, text |-> e.text, arg |-> e.arg,
               placemarks |-> e.placemarks]

(***************************************************************************)
(* Placemarks of the input document.                                       *)
(***************************************************************************)
NoElem == "<absent>"

Names == {"A", "B"}

\* coordinates child: absent, present without text, or present with text.
NoCoordinates == [present |-> FALSE, hasText |-> FALSE, text |-> <<>>]
EmptyCoordinates == [present |-> TRUE, hasText |-> FALSE, text |-> <<>>]
Coord(t) == [present |-> TRUE, hasText |-> TRUE, text |-> t]

CoordTexts ==
    { <<"1", "0", ".", "0", ",", "2", "0", ".", "0">>,            \* 10.0,20.0
      <<"-", "5", ".", "5", ",", "3", "0", ".", "1", ",", "1", "0", "0">>,
                                                                  \* -5.5,30.1,100
      <<" ", "2", ",", "1", ",", "x", " ">>,    \* 3 parts, altitude not numeric
      <<"1">>,                                  \* 1 part
      <<" ">>,                                  \* blank: 1 empty part
      <<"1", ",", "2", ",", "3", ",", "4">>,    \* 4 parts
      <<"x", ",", "1">>,                        \* longitude not numeric
      <<"1", ",", "x">>,                        \* latitude not numeric
      <<"1", ",", ",", "2">> }                  \* 3 parts, latitude empty

Placemarks ==
    [name : Names \cup {NoElem},
     coordinates : {NoCoordinates, EmptyCoordinates} \cup {Coord(t) : t \in CoordTexts}]

(***************************************************************************)
(* parse_kml, lines 80-91: one Placemark read into a record, or a raise.   *)
(***************************************************************************)
Raise(e) == [status |-> "raise", error |-> e,
             rec |-> [name |-> "", longitude |-> [num |-> 0, scale |-> 0],
                      latitude |-> [num |-> 0, scale |-> 0]]]

\* Record with the two coordinate parts taken in the other order.
RecordSwapped(name, lon, lat) ==
    [name |-> name, longitude |-> FloatVal(lat), latitude |-> FloatVal(lon)]

Record(name, lon, lat) ==
    [name |-> name, longitude |-> FloatVal(lon), latitude |-> FloatVal(lat)]

\* ArityOk taking the first two of any two or more parts.
ArityLoose(parts) == Len(parts) >= 2

\* Lines 83-86: the two parts used, from 3 parts or by unpacking 2.
ArityOk(parts) == Len(parts) = 3 \/ Len(parts) = 2

ReadPlacemark(p) ==
    IF p.name = NoElem THEN Raise(AttributeError(<<"t", "e", "x", "t">>))
    ELSE IF ~p.coordinates.present THEN Raise(AttributeError(<<"t", "e", "x", "t">>))
    ELSE IF ~p.coordinates.hasText
         THEN Raise(AttributeError(<<"s", "t", "r", "i", "p">>))
    ELSE LET parts == SplitComma(Strip(p.coordinates.text))
         IN  IF ~ArityOk(parts) THEN Raise(UnpackError(Len(parts)))
             ELSE IF ~IsFloat(parts[1]) THEN Raise(FloatError(parts[1]))
             ELSE IF ~IsFloat(parts[2]) THEN Raise(FloatError(parts[2]))
             ELSE [status |-> "ok", error |-> NoError,
                   rec |-> Record(p.name, parts[1], parts[2])]

\* ParseOutcome that skips a Placemark it cannot read and goes on.
ParseOutcomeSkip(acc, r) ==
    IF r.status = "ok"
    THEN [pc |-> "parse_loop", data |-> Append(acc, r.rec), err |-> NoError,
          logged |-> <<>>]
    ELSE IF r.error.exc = "AttributeError"
    THEN [pc |-> "parse_loop", data |-> acc, err |-> NoError, logged |-> <<>>]
    ELSE IF r.error.exc = "XMLSyntaxError"
    THEN [pc |-> "except", data |-> <<>>, err |-> WrapParseError(r.error),
          logged |-> <<Message(WrapParseError(r.error))>>]
    ELSE [pc |-> "except", data |-> <<>>, err |-> r.error, logged |-> <<>>]

\* The except clause of parse_kml (lines 98-100) and the loop's continuation:
\* what one event leaves behind, given the result r of reading it.
ParseOutcome(acc, r) ==
    IF r.status = "ok"
    THEN [pc |-> "parse_loop", data |-> Append(acc, r.rec), err |-> NoError,
          logged |-> <<>>]
    ELSE IF r.error.exc \in {"XMLSyntaxError", "AttributeError"}
    THEN [pc |-> "except", data |-> <<>>, err |-> WrapParseError(r.error),
          logged |-> <<Message(WrapParseError(r.error))>>]
    ELSE [pc |-> "except", data |-> <<>>, err |-> r.error, logged |-> <<>>]

(***************************************************************************)
(* The element tree iterparse keeps: the containers under the root, each   *)
(* the sequence of its Placemark children still in the tree, "full" (as    *)
(* parsed) or "stub" (cleared).                                            *)
(***************************************************************************)
\* The parser has just closed a Placemark, in a new container or the current one.
TreeAtEvent(t, newParent) ==
    IF t = <<>> \/ newParent THEN Append(t, <<"full">>)
    ELSE [t EXCEPT ![Len(t)] = Append(@, "full")]

\* elem.clear()
ClearElem(t) == [t EXCEPT ![Len(t)] = [@ EXCEPT ![Len(@)] = "stub"]]

\* while elem.getprevious() is not None: del elem.getparent()[0]
DropPreviousSiblings(t) ==
    [t EXCEPT ![Len(t)] = SubSeq(@, Len(@), Len(@))]

RECURSIVE Retained(_)
\* Number of Placemark elements (full or stub) still in the tree.
Retained(t) == IF t = <<>> THEN 0 ELSE Len(Head(t)) + Retained(Tail(t))

(***************************************************************************)
(* pandas: DataFrame(list of dicts) and DataFrame.to_csv(index=False).     *)
(***************************************************************************)
RecordColumns == <<"name", "longitude", "latitude">>

\* The columns are the keys of the dicts: an empty list gives no columns.
DataFrame(rows) ==
    [returned |-> TRUE,
     columns |-> IF rows = <<>> THEN <<>> ELSE RecordColumns,
     rows |-> rows]

NotReturned == [returned |-> FALSE, columns |-> <<>>, rows |-> <<>>]

CsvRow(rec) == <<rec.name, rec.longitude, rec.latitude>>

\* The header line is the frame's columns; one line per row follows.
ToCsv(frame) ==
    [written |-> TRUE, header |-> frame.columns,
     rows |-> [i \in 1..Len(frame.rows) |-> CsvRow(frame.rows[i])]]

NoFile == [written |-> FALSE, header |-> <<>>, rows |-> <<>>]

(***************************************************************************)
(* Plot types and the export of all of them.                               *)
(***************************************************************************)
plot_types == <<"Scatter Plot", "Density Plot", "Lines Plot">>

Kinds == {plot_types[i] : i \in 1..Len(plot_types)}

\* choose_plot_type: plot_types.get(choice, "Scatter Plot")
Choices == {"1", "2", "3", "A", ""}

PlotTypeOf(choice) ==
    CASE choice = "1" -> "Scatter Plot"
      [] choice = "2" -> "Density Plot"
      [] choice = "3" -> "Lines Plot"
      [] choice = "A" -> "All"
      [] OTHER -> "Scatter Plot"

VARIABLES
    pc,        \* where main (and, in export_all_plots, the coordinator) stands
    doc,       \* the Placemarks the parser has delivered so far, in order
    tree,      \* the element tree iterparse retains
    data,      \* parse_kml's list of records
    df,        \* the DataFrame parse_kml returned
    err,       \* the exception main's except clause received
    csv,       \* the CSV file save_dataframe wrote
    plotType,  \* choose_plot_type's answer
    task,      \* export_all_plots: each kind's future
    yielded,   \* the futures as_completed has handed to the loop
    current,   \* the future the loop body is handling
    writing,   \* the kinds whose write_html is in progress
    artifacts, \* per kind, the number of HTML files written
    failures,  \* per kind, the number of "Error creating plot" records
    errorLog,  \* logging.error records of main and the extractor
    printed    \* what print(e) wrote

vars == <<pc, doc, tree, data, df, err, csv, plotType, task, yielded, current,
          writing, artifacts, failures, errorLog, printed>>

parseVars == <<doc, tree, data, df, err>>
exportVars == <<task, yielded, current, writing, artifacts, failures>>

Init ==
    /\ pc = "start"
    /\ doc = <<>>
    /\ tree = <<>>
    /\ data = <<>>
    /\ df = NotReturned
    /\ err = NoError
    /\ csv = NoFile
    /\ plotType = "none"
    /\ task = [k \in Kinds |-> "unsubmitted"]
    /\ yielded = {}
    /\ current = "none"
    /\ writing = {}
    /\ artifacts = [k \in Kinds |-> 0]
    /\ failures = [k \in Kinds |-> 0]
    /\ errorLog = <<>>
    /\ printed = <<>>

(***************************************************************************)
(* main, lines 194-200: validate, parse, save.                             *)
(***************************************************************************)
\* validate_kml_file: the name main passes always ends in .kml.
Validate ==
    /\ pc = "start"
    /\ \E exists \in BOOLEAN :
         IF exists
         THEN /\ pc' = "parse_loop"
              /\ UNCHANGED <<err, errorLog>>
         ELSE /\ pc' = "except"
              /\ err' = FileNotFound
              /\ errorLog' = Append(errorLog, Message(FileNotFound))
    /\ UNCHANGED <<doc, tree, data, df, csv, plotType, printed>>
    /\ UNCHANGED exportVars

\* One Placemark end event: the loop body, or the raise that ends parse_kml.
ParsePlacemark ==
    /\ pc = "parse_loop"
    /\ Len(doc) < MaxPlacemarks
    /\ \E p \in Placemarks, newParent \in BOOLEAN :
         LET r == ReadPlacemark(p)
             o == ParseOutcome(data, r)
             t == TreeAtEvent(tree, newParent)
         IN  /\ tree # <<>> \/ newParent
             /\ doc' = Append(doc, p)
             /\ pc' = o.pc
             /\ data' = o.data
             /\ err' = o.err
             /\ errorLog' = errorLog \o o.logged
             /\ tree' = IF r.status = "ok"
                        THEN DropPreviousSiblings(ClearElem(t))
                        ELSE <<>>
    /\ UNCHANGED <<df, csv, plotType, printed>>
    /\ UNCHANGED exportVars

\* The document stops being well-formed XML at this point of the stream.
ParseSyntaxError ==
    /\ pc = "parse_loop"
    /\ LET o == ParseOutcome(data, Raise(XMLSyntaxError))
       IN  /\ pc' = o.pc
           /\ data' = o.data
           /\ err' = o.err
           /\ errorLog' = errorLog \o o.logged
    /\ tree' = <<>>
    /\ UNCHANGED <<doc, df, csv, plotType, printed>>
    /\ UNCHANGED exportVars

\* End of the document: return pd.DataFrame(data).
ParseReturn ==
    /\ pc = "parse_loop"
    /\ df' = DataFrame(data)
    /\ data' = <<>>
    /\ tree' = <<>>
    /\ pc' = "parsed"
    /\ UNCHANGED <<doc, err, csv, plotType, errorLog, printed>>
    /\ UNCHANGED exportVars

\* get_output_filename and save_dataframe.
SaveDataframe ==
    /\ pc = "parsed"
    /\ csv' = ToCsv(df)
    /\ pc' = "choose"
    /\ UNCHANGED <<plotType, errorLog, printed>>
    /\ UNCHANGED parseVars
    /\ UNCHANGED exportVars

\* MainExceptOutput of a handler that logs the error and prints nothing.
MainExceptSilent(e) == <<>>

\* except (FileNotFoundError, ValueError) as e: logging.error(e); print(e)
MainExceptOutput(e) == <<Message(e)>>

MainExcept ==
    /\ pc = "except"
    /\ errorLog' = Append(errorLog, Message(err))
    /\ printed' = printed \o MainExceptOutput(err)
    /\ pc' = "done"
    /\ UNCHANGED <<csv, plotType>>
    /\ UNCHANGED parseVars
    /\ UNCHANGED exportVars

(***************************************************************************)
(* main, lines 202-213: the plot type, and one chart.                      *)
(***************************************************************************)
ChoosePlotType ==
    /\ pc = "choose"
    /\ \E choice \in Choices :
         /\ plotType' = PlotTypeOf(choice)
         /\ pc' = IF PlotTypeOf(choice) = "All" THEN "submit" ELSE "render_one"
    /\ UNCHANGED <<csv, errorLog, printed>>
    /\ UNCHANGED parseVars
    /\ UNCHANGED exportVars

\* create_map on main's thread: a figure, a ValueError main catches, or
\* another exception, which main does not catch.
RenderOne ==
    /\ pc = "render_one"
    /\ \/ /\ pc' = "write_one"
          /\ UNCHANGED err
       \/ /\ pc' = "except"
          /\ err' = [NoError EXCEPT !.exc = "ValueError", !.text = "render failed"]
       \/ /\ pc' = "crashed"
          /\ err' = [NoError EXCEPT !.exc = "RuntimeError", !.text = "render failed"]
    /\ UNCHANGED <<doc, tree, data, df, csv, plotType, errorLog, printed>>
    /\ UNCHANGED exportVars

\* get_html_filename, fig.show(), fig.write_html(html_file)
WriteOne ==
    /\ pc = "write_one"
    /\ artifacts' = [artifacts EXCEPT ![plotType] = @ + 1]
    /\ pc' = "done"
    /\ UNCHANGED <<csv, plotType, errorLog, printed>>
    /\ UNCHANGED parseVars
    /\ UNCHANGED <<task, yielded, current, writing, failures>>

(***************************************************************************)
(* export_all_plots: three create_map calls on pool workers, gathered by   *)
(* the calling thread.                                                     *)
(***************************************************************************)
Completed == {"ok", "raised"}

\* executor.submit for the next plot type of the list, in list order.
Submit ==
    /\ pc = "submit"
    /\ LET n == Cardinality({k \in Kinds : task[k] # "unsubmitted"})
       IN  /\ n < Len(plot_types)
           /\ task' = [task EXCEPT ![plot_types[n + 1]] = "pending"]
           /\ pc' = IF n + 1 = Len(plot_types) THEN "gather" ELSE "submit"
    /\ UNCHANGED <<csv, plotType, errorLog, printed>>
    /\ UNCHANGED parseVars
    /\ UNCHANGED <<yielded, current, writing, artifacts, failures>>

\* A pool worker takes the task up (the default pool has more than 3 workers).
WorkerStart(k) ==
    /\ task[k] = "pending"
    /\ task' = [task EXCEPT ![k] = "running"]
    /\ UNCHANGED <<pc, csv, plotType, errorLog, printed>>
    /\ UNCHANGED parseVars
    /\ UNCHANGED <<yielded, current, writing, artifacts, failures>>

\* create_map returns a figure or raises; the future keeps either.
WorkerFinish(k) ==
    /\ task[k] = "running"
    /\ \E outcome \in Completed : task' = [task EXCEPT ![k] = outcome]
    /\ UNCHANGED <<pc, csv, plotType, errorLog, printed>>
    /\ UNCHANGED parseVars
    /\ UNCHANGED <<yielded, current, writing, artifacts, failures>>

\* as_completed hands over a finished future not handed over before.
CanYield(k) == task[k] \in Completed /\ k \notin yielded

Gather(k) ==
    /\ pc = "gather"
    /\ CanYield(k)
    /\ yielded' = yielded \cup {k}
    /\ current' = k
    /\ pc' = "result"
    /\ UNCHANGED <<csv, plotType, errorLog, printed>>
    /\ UNCHANGED parseVars
    /\ UNCHANGED <<task, writing, artifacts, failures>>

\* HandleResult without the try: a raise leaves the loop and the function.
HandleResultAbort(state) ==
    IF state = "ok" THEN [pc |-> "export", failed |-> 0]
    ELSE [pc |-> "done", failed |-> 1]

\* Lines 167-171: future.result() returns, or raises into "except Exception",
\* which logs and lets the loop go on.
HandleResult(state) ==
    IF state = "ok" THEN [pc |-> "export", failed |-> 0]
    ELSE [pc |-> "gather", failed |-> 1]

Result ==
    /\ pc = "result"
    /\ LET h == HandleResult(task[current])
       IN  /\ pc' = h.pc
           /\ failures' = [failures EXCEPT ![current] = @ + h.failed]
           /\ current' = IF h.pc = "export" THEN current ELSE "none"
    /\ UNCHANGED <<csv, plotType, errorLog, printed>>
    /\ UNCHANGED parseVars
    /\ UNCHANGED <<task, yielded, writing, artifacts>>

\* ExportEnabled of a write started as soon as k's render is done, wherever
\* the loop stands.
ExportEnabledOnCompletion(k) == task[k] = "ok" /\ artifacts[k] = 0

\* export_plot(fig, plot_name) is called where the loop holds k's figure.
ExportEnabled(k) == pc = "export" /\ current = k /\ task[k] = "ok"

\* export_plot begins: fig.write_html is in progress.
ExportBegin(k) ==
    /\ ExportEnabled(k)
    /\ k \notin writing
    /\ writing' = writing \cup {k}
    /\ pc' = "exporting"
    /\ UNCHANGED <<csv, plotType, errorLog, printed>>
    /\ UNCHANGED parseVars
    /\ UNCHANGED <<task, yielded, current, artifacts, failures>>

\* export_plot ends: the file is written, and the loop asks for the next future.
ExportEnd(k) ==
    /\ pc = "exporting"
    /\ k \in writing
    /\ writing' = writing \ {k}
    /\ artifacts' = [artifacts EXCEPT ![k] = @ + 1]
    /\ pc' = "gather"
    /\ current' = "none"
    /\ UNCHANGED <<csv, plotType, errorLog, printed>>
    /\ UNCHANGED parseVars
    /\ UNCHANGED <<task, yielded, failures>>

\* ExportReturnReady of a loop that stops at the first future handed over,
\* under a shutdown that does not wait.
ExportReturnFirst == \E k \in Kinds : k \in yielded

\* The loop ends when as_completed has handed over every future, and the
\* with block's exit (shutdown(wait=True)) waits for every worker.
ExportReturnReady ==
    /\ \A k \in Kinds : k \in yielded
    /\ \A k \in Kinds : task[k] \in Completed

ExportReturn ==
    /\ pc = "gather"
    /\ ExportReturnReady
    /\ pc' = "done"
    /\ UNCHANGED <<csv, plotType, errorLog, printed>>
    /\ UNCHANGED parseVars
    /\ UNCHANGED exportVars

Worker(k) == WorkerStart(k) \/ WorkerFinish(k)

Coordinator ==
    \/ Submit
    \/ \E k \in Kinds : Gather(k)
    \/ Result
    \/ \E k \in Kinds : ExportBegin(k)
    \/ \E k \in Kinds : ExportEnd(k)
    \/ ExportReturn

Extract == Validate \/ ParsePlacemark \/ ParseSyntaxError \/ ParseReturn

Next ==
    \/ Extract
    \/ SaveDataframe
    \/ MainExcept
    \/ ChoosePlotType
    \/ RenderOne
    \/ WriteOne
    \/ Coordinator
    \/ \E k \in Kinds : Worker(k)

Spec == Init /\ [][Next]_vars

\* Threads run: a worker that can step does, and so does the calling thread.
FairSpec ==
    /\ Spec
    /\ WF_vars(Extract \/ SaveDataframe \/ MainExcept \/ ChoosePlotType
               \/ RenderOne \/ WriteOne \/ Coordinator)
    /\ \A k \in Kinds : WF_vars(Worker(k))

(***************************************************************************)
(* Properties.  The conditions on a document below are stated on its text, *)
(* apart from the reader: the parts of the coordinate text and whether     *)
(* each converts.                                                          *)
(***************************************************************************)
PartsOf(p) == SplitComma(Strip(p.coordinates.text))

HasChildren(p) ==
    p.name # NoElem /\ p.coordinates.present /\ p.coordinates.hasText

\* Two or three parts, the first two numeric.
WellFormed(p) ==
    /\ HasChildren(p)
    /\ Len(PartsOf(p)) \in {2, 3}
    /\ IsFloat(PartsOf(p)[1])
    /\ IsFloat(PartsOf(p)[2])

WrongArity(p) == p.coordinates.hasText /\ Len(PartsOf(p)) \notin {2, 3}

BadPart(p) ==
    /\ p.coordinates.hasText
    /\ Len(PartsOf(p)) \in {2, 3}
    /\ ~IsFloat(PartsOf(p)[1]) \/ ~IsFloat(PartsOf(p)[2])

LacksChild(p) == p.name = NoElem \/ ~p.coordinates.present

\* The first of the two parts used that float() rejects.
OffendingPart(p) ==
    IF ~IsFloat(PartsOf(p)[1]) THEN PartsOf(p)[1] ELSE PartsOf(p)[2]

\* validate_kml_file or parse_kml raised: main holds an exception and no frame.
ExtractionFailed == err.exc # "none" /\ ~df.returned

NothingExported ==
    /\ \A k \in Kinds : artifacts[k] = 0 /\ failures[k] = 0
    /\ \A k \in Kinds : task[k] = "unsubmitted"
    /\ writing = {}

ExportPcs == {"submit", "gather", "result", "export", "exporting"}

TextTenTwenty == <<"1", "0", ".", "0", ",", "2", "0", ".", "0">>
TextWithAltitude ==
    <<"-", "5", ".", "5", ",", "3", "0", ".", "1", ",", "1", "0", "0">>

\* C1: export_all_plots handles each of the three kinds exactly once: when it
\* has returned, every kind whose render succeeded has its one artifact and no
\* failure record, every kind whose render raised has one failure record and
\* no artifact, whatever the other kinds did; no kind is ever handled twice.
C1_EachKindOnce ==
    /\ \A k \in Kinds : artifacts[k] + failures[k] <= 1
    /\ (pc = "done" /\ plotType = "All") =>
         \A k \in Kinds :
            /\ task[k] \in Completed
            /\ task[k] = "ok" => artifacts[k] = 1 /\ failures[k] = 0
            /\ task[k] = "raised" => artifacts[k] = 0 /\ failures[k] = 1

\* One render raised and the other two artifacts were still written.
C1_Witness ==
    /\ pc = "done"
    /\ plotType = "All"
    /\ task["Density Plot"] = "raised"
    /\ failures["Density Plot"] = 1
    /\ artifacts["Scatter Plot"] = 1
    /\ artifacts["Lines Plot"] = 1

\* C2: export_all_plots has never returned while a render task is unfinished,
\* and once it is entered it returns (every render task terminating).
C2_WaitsForAll ==
    /\ [](pc = "done" /\ plotType = "All" =>
            \A k \in Kinds : task[k] \in Completed /\ k \in yielded)
    /\ (pc \in ExportPcs) ~> (pc = "done")

\* The coordinator returned after a run in which a render raised.
C2_Witness ==
    /\ pc = "done"
    /\ plotType = "All"
    /\ \E k \in Kinds : task[k] = "raised"
    /\ \E k \in Kinds : task[k] = "ok"

\* C3: a document of N >= 0 Placemarks, each with a name and 2 or 3 parts whose
\* first two are numeric, never raises at a Placemark and yields N records,
\* the i-th with the i-th name, first part as longitude and second part as
\* latitude, a third part ignored; N = 0 yields the empty frame.
C3_ExtractInOrder ==
    /\ (df.returned /\ \A i \in 1..Len(doc) : WellFormed(doc[i])) =>
         /\ Len(df.rows) = Len(doc)
         /\ \A i \in 1..Len(doc) :
              /\ df.rows[i].name = doc[i].name
              /\ df.rows[i].longitude = FloatVal(PartsOf(doc[i])[1])
              /\ df.rows[i].latitude = FloatVal(PartsOf(doc[i])[2])
              /\ doc[i].coordinates.text = TextWithAltitude =>
                   /\ df.rows[i].longitude = [num |-> 0 - 55, scale |-> 1]
                   /\ df.rows[i].latitude = [num |-> 301, scale |-> 1]
              /\ doc[i].coordinates.text = TextTenTwenty =>
                   /\ df.rows[i].longitude = [num |-> 10, scale |-> 0]
                   /\ df.rows[i].latitude = [num |-> 20, scale |-> 0]
    /\ (ExtractionFailed /\ doc # <<>> /\ err.text # XMLSyntaxError.text) =>
         ~WellFormed(doc[Len(doc)])
    /\ (df.returned /\ doc = <<>>) => df.rows = <<>>

\* Two Placemarks, the second with an altitude, extracted in document order.
C3_Witness ==
    /\ df.returned
    /\ Len(doc) = 2
    /\ doc[1].coordinates.text = TextTenTwenty
    /\ doc[2].coordinates.text = TextWithAltitude
    /\ doc[1].name = "A"
    /\ doc[2].name = "B"
    /\ Len(df.rows) = 2

\* C4: a Placemark whose coordinate text has not 2 or 3 parts, or whose used
\* part is not numeric, is the last one read: parse_kml raises a ValueError
\* there and returns no frame, so the records before it are never returned and
\* nothing is saved.
C4_BadCoordinatesAbort ==
    \A i \in 1..Len(doc) :
       (WrongArity(doc[i]) \/ BadPart(doc[i])) =>
          /\ i = Len(doc)
          /\ ~df.returned
          /\ data = <<>>
          /\ err.exc = "ValueError"
          /\ pc \in {"except", "done"}
          /\ ~csv.written

\* A valid Placemark was read before the one with the wrong number of parts.
C4_Witness ==
    /\ pc = "done"
    /\ Len(doc) = 2
    /\ WellFormed(doc[1])
    /\ HasChildren(doc[2])
    /\ WrongArity(doc[2])
    /\ Len(PartsOf(doc[2])) = 4

\* C5: a Placemark without a name child or without a coordinates child is not
\* dropped: parse_kml raises at it, and a frame that is returned has as many
\* records as the document has Placemarks.
C5_NoSilentDrop ==
    /\ \A i \in 1..Len(doc) :
          LacksChild(doc[i]) =>
             /\ i = Len(doc)
             /\ ~df.returned
             /\ err.exc = "ValueError"
             /\ err.wrapped
    /\ df.returned => Len(df.rows) >= Len(doc)
    /\ pc = "parse_loop" => Len(data) >= Len(doc)

\* A valid Placemark was read before one that has no name child.
C5_Witness ==
    /\ pc = "done"
    /\ Len(doc) = 2
    /\ WellFormed(doc[1])
    /\ doc[2].name = NoElem
    /\ doc[2].coordinates.present

\* C6 as stated: the error of a malformed coordinate part of the k-th
\* Placemark names k.
C6_ErrorNamesPosition ==
    (ExtractionFailed /\ doc # <<>> /\ err.text # XMLSyntaxError.text
         /\ HasChildren(doc[Len(doc)]) /\ BadPart(doc[Len(doc)])) =>
       err.placemarks = {Len(doc)}

\* C6 as amended: the error of a malformed coordinate part is float()'s own
\* ValueError, unwrapped; it quotes the offending part and names no Placemark.
\* (That of a wrong number of parts is the unpacking's ValueError, which
\* names no Placemark either.)
C6_ErrorQuotesToken ==
    /\ (ExtractionFailed /\ doc # <<>> /\ err.text # XMLSyntaxError.text
          /\ HasChildren(doc[Len(doc)]) /\ BadPart(doc[Len(doc)])) =>
         /\ err.exc = "ValueError"
         /\ ~err.wrapped
         /\ err.text = "could not convert string to float"
         /\ err.arg = OffendingPart(doc[Len(doc)])
         /\ err.placemarks = {}
    /\ (ExtractionFailed /\ doc # <<>> /\ err.text # XMLSyntaxError.text
          /\ HasChildren(doc[Len(doc)]) /\ WrongArity(doc[Len(doc)])) =>
         /\ err.exc = "ValueError"
         /\ ~err.wrapped
         /\ err.arg = NoToken
         /\ err.placemarks = {}

\* The second Placemark's latitude is not numeric, and the run has ended.
C6_Witness ==
    /\ pc = "done"
    /\ Len(doc) = 2
    /\ HasChildren(doc[2])
    /\ BadPart(doc[2])
    /\ IsFloat(PartsOf(doc[2])[1])

C8_RetainedBounded == pc = "parse_loop" => Retained(tree) <= 1

\* C9 as stated: the CSV of every frame parse_kml returns, the empty one
\* included, is the header name,longitude,latitude and one row per record in
\* order.
C9_CsvHeaderAndRows ==
    csv.written =>
       /\ csv.header = <<"name", "longitude", "latitude">>
       /\ Len(csv.rows) = Len(df.rows)
       /\ \A i \in 1..Len(df.rows) :
            csv.rows[i] = <<df.rows[i].name, df.rows[i].longitude,
                            df.rows[i].latitude>>

\* C10: in export_all_plots a write is in progress only in the loop body of
\* the calling thread, for the future it is handling, whose render succeeded;
\* so there is at most one at a time, and at most one per kind.
C10_WritesOnCoordinator ==
    /\ Cardinality(writing) <= 1
    /\ \A k \in writing : pc = "exporting" /\ current = k /\ task[k] = "ok"
    /\ \A k \in Kinds : artifacts[k] + (IF k \in writing THEN 1 ELSE 0) <= 1
    /\ \A k \in Kinds : artifacts[k] > 0 /\ plotType = "All" => task[k] = "ok"

\* A write is in progress while another kind's render is still running.
C10_Witness ==
    /\ writing = {"Lines Plot"}
    /\ task["Scatter Plot"] = "running"

====
